---- MODULE Spec2Model ----
(***************************************************************************)
(* A model of the hourly PV yield simulation (main.py, PVSimulator and its  *)
(* sub-models).  Series are sequences indexed by row position.  Real        *)
(* numbers are exact rationals <<n, d>> with d > 0 in lowest terms; NaN is  *)
(* the pair <<0, 0>>.  The repository's own arithmetic (products, clip,     *)
(* where, maximum, fillna) is exact; the results of pvlib's power formulas  *)
(* (pvwatts_dc, inverter.pvwatts) are rounded down to the grid 1/Grid, the  *)
(* model's stand-in for floating-point rounding.                            *)
(***************************************************************************)
EXTENDS Integers, Sequences, FiniteSets, TLC

VARIABLES pc, config, remote, weather_df, validation, poa_df, cell_temp,
          dc_power, dc_power_after_loss, ac_power, results_df, exported,
          exit_code, error, stages, probe_in, probe_out

vars == <<pc, config, remote, weather_df, validation, poa_df, cell_temp,
          dc_power, dc_power_after_loss, ac_power, results_df, exported,
          exit_code, error, stages, probe_in, probe_out>>

-----------------------------------------------------------------------------
(* Bounds of the model *)

\* longest raw hourly series the data provider returns in the model
MaxHours == 3
\* the number of hours validate_data expects (8760 in the source), scaled
\* to the model's horizon
ExpectedHours == 2
\* most loss categories of a probed loss profile
MaxCats == 3
\* denominator of the grid pvlib's power results are rounded to (0.1 kW)
Grid == 10

-----------------------------------------------------------------------------
(* Exact rational arithmetic *)

Abs(x) == IF x < 0 THEN -x ELSE x

RECURSIVE GCD(_, _)
GCD(a, b) == IF b = 0 THEN a ELSE GCD(b, a % b)

Norm(n, d) == LET g == GCD(Abs(n), d) IN <<n \div g, d \div g>>

R(i) == <<i, 1>>
NaN == <<0, 0>>
IsNaN(a) == a[2] = 0

RMul(a, b) ==
    LET g1 == GCD(Abs(a[1]), b[2])
        g2 == GCD(Abs(b[1]), a[2])
    IN  <<(a[1] \div g1) * (b[1] \div g2), (a[2] \div g2) * (b[2] \div g1)>>

RAdd(a, b) ==
    LET g == GCD(a[2], b[2])
    IN  Norm(a[1] * (b[2] \div g) + b[1] * (a[2] \div g), (a[2] \div g) * b[2])

RNeg(a) == <<-a[1], a[2]>>
RSub(a, b) == RAdd(a, RNeg(b))
RInv(a) == IF a[1] < 0 THEN <<-a[2], -a[1]>> ELSE <<a[2], a[1]>>
RDiv(a, b) == RMul(a, RInv(b))
RLe(a, b) == a[1] * b[2] <= b[1] * a[2]
RLt(a, b) == a[1] * b[2] < b[1] * a[2]
RMax(a, b) == IF RLe(a, b) THEN b ELSE a
RMin(a, b) == IF RLe(a, b) THEN a ELSE b

\* floor of a * k for a positive integer k, without forming a[1] * k
FloorTimes(a, k) ==
    LET q == a[1] \div a[2]
        r == a[1] - q * a[2]
    IN  q * k + (r * k) \div a[2]

\* a rounded down to a multiple of 1/Grid
Quant(a) == Norm(FloorTimes(a, Grid), Grid)

-----------------------------------------------------------------------------
(* pandas / numpy element operations; NaN passes through comparisons *)

\* Series.fillna(0)
FillNa(a) == IF IsNaN(a) THEN R(0) ELSE a

\* Series.clip(lower=lo)
ClipLower(a, lo) == IF IsNaN(a) THEN a ELSE RMax(a, lo)

\* Series.clip(lower=lo, upper=hi)
Clip(a, lo, hi) == IF IsNaN(a) THEN a ELSE RMin(RMax(a, lo), hi)

-----------------------------------------------------------------------------
(* Configuration dictionaries (config/system_params.py, loss_params.py) *)

\* LOCATION
LOCATION == [latitude |-> <<313, 10>>, longitude |-> <<6031, 50>>,
             altitude |-> 5, name |-> "Suzhou"]

\* SYSTEM; the tilt is one of the angles whose cosine the model tabulates
SYSTEM == [capacity_kw |-> 1000, tilt |-> 60, azimuth |-> 180,
           albedo |-> <<1, 5>>, mounting_type |-> "roof_mounted"]

\* MODULE: the keys _calculate_dc_power reads
MODULE_PARAMS == [gamma_pmp |-> <<-7, 2000>>, T_ref |-> 25]

\* INVERTER
INVERTER == [pdc0 |-> 1000, pac0 |-> 1000, eta_inv_nom |-> <<49, 50>>,
             eta_inv_ref |-> <<9637, 10000>>, pdc_min |-> 50,
             pdc_max |-> 1050]

\* the keys of LOSSES, in declaration order
LossNames == <<"soiling", "shading", "snow", "mismatch", "wiring",
               "connections", "lid", "nameplate_rating", "age",
               "availability">>

\* a loss profile is the ordered items of a loss_params dict; LOSSES is the
\* first four categories of the source's LOSSES
LOSSES == << <<"soiling", <<1, 50>> >>, <<"shading", R(0)>>,
             <<"snow", R(0)>>, <<"mismatch", <<1, 50>> >> >>

\* the arguments of PVSimulator(...); missing names a key the caller's
\* dictionaries lack ("none": all keys present)
BaseConfig == [location |-> LOCATION, system |-> SYSTEM,
               module |-> MODULE_PARAMS, inverter |-> INVERTER,
               loss_params |-> LOSSES, missing |-> "none"]

SystemVariants ==
    { [SYSTEM EXCEPT !.tilt = 0], [SYSTEM EXCEPT !.tilt = 120],
      [SYSTEM EXCEPT !.azimuth = 0], [SYSTEM EXCEPT !.azimuth = 360],
      [SYSTEM EXCEPT !.albedo = <<3, 2>>],
      [SYSTEM EXCEPT !.capacity_kw = 1500],
      [SYSTEM EXCEPT !.mounting_type = "open_rack"],
      [SYSTEM EXCEPT !.mounting_type = "insulated_back"] }

LossVariants ==
    { << <<"soiling", <<3, 2>> >> >>,
      << <<"wiring", <<1, 10>> >>, <<"age", R(0)>> >>,
      << >> }

MissingKeys == {"mounting_type", "name", "gamma_pmp", "pac0"}

Configs ==
    {BaseConfig}
    \cup { [BaseConfig EXCEPT !.system = s] : s \in SystemVariants }
    \cup { [BaseConfig EXCEPT !.loss_params = l] : l \in LossVariants }
    \cup { [BaseConfig EXCEPT !.module.gamma_pmp = <<-1, 25>>],
           [BaseConfig EXCEPT !.inverter.pac0 = 900],
           [BaseConfig EXCEPT !.inverter.pac0 = 900,
                              !.system.capacity_kw = 1500] }
    \cup { [BaseConfig EXCEPT !.missing = k] : k \in MissingKeys }

-----------------------------------------------------------------------------
(* Weather data (data/weather_fetcher.py) *)

\* rows the provider can return: hour index, W/m2, degrees C, m/s
HourlyRows ==
    { [time |-> 0, ghi |-> 0, dni |-> 0, dhi |-> 0,
       temp_air |-> 10, wind_speed |-> 2],
      [time |-> 1, ghi |-> 1000, dni |-> 800, dhi |-> 200,
       temp_air |-> 20, wind_speed |-> 0],
      [time |-> 1, ghi |-> -100, dni |-> 0, dhi |-> 0,
       temp_air |-> 20, wind_speed |-> 0],
      [time |-> 0, ghi |-> 0, dni |-> 0, dhi |-> 0,
       temp_air |-> -50, wind_speed |-> 2],
      [time |-> 2, ghi |-> 0, dni |-> 0, dhi |-> 100,
       temp_air |-> 10, wind_speed |-> 2],
      [time |-> 3, ghi |-> 500, dni |-> 500, dhi |-> 100,
       temp_air |-> 30, wind_speed |-> 2],
      [time |-> 1, ghi |-> 0, dni |-> 0, dhi |-> 0,
       temp_air |-> 30, wind_speed |-> 0] }

HourlySeries == UNION { [1..n -> HourlyRows] : n \in 1..MaxHours }

\* what requests.get(...) and response.json() give fetch_tmy_data
Responses ==
    { [status |-> "ok", tmy_hourly |-> h] : h \in HourlySeries }
    \cup { [status |-> "request_failed", tmy_hourly |-> << >>],
           [status |-> "no_tmy_hourly", tmy_hourly |-> << >>] }

\* df.sort_index(): rows in ascending time, equal times in arrival order
RECURSIVE SortInsert(_, _)
SortInsert(sorted, row) ==
    IF sorted = << >> THEN <<row>>
    ELSE IF row.time < Head(sorted).time
         THEN <<row>> \o sorted
         ELSE <<Head(sorted)>> \o SortInsert(Tail(sorted), row)

RECURSIVE sort_index(_)
sort_index(df) ==
    IF df = << >> THEN << >>
    ELSE SortInsert(sort_index(SubSeq(df, 1, Len(df) - 1)), df[Len(df)])

\* _parse_tmy_data: the rows, indexed by datetime and sorted
parse_tmy_data(hourly_data) == sort_index(hourly_data)

\* validate_data
validate_data(df) ==
    LET neg_ghi == Cardinality({i \in DOMAIN df : df[i].ghi < 0})
        neg_dni == Cardinality({i \in DOMAIN df : df[i].dni < 0})
        neg_dhi == Cardinality({i \in DOMAIN df : df[i].dhi < 0})
    IN  [total_hours |-> Len(df),
         expected_hours |-> ExpectedHours,
         is_complete |-> (Len(df) = ExpectedHours),
         is_physically_valid |->
             (neg_ghi = 0 /\ neg_dni = 0 /\ neg_dhi = 0)]

-----------------------------------------------------------------------------
(* Irradiance (models/irradiance.py); angles in degrees *)

\* cosine of the angles the model uses
CosDeg(a) ==
    CASE a = 0 -> R(1)
      [] a = 60 -> <<1, 2>>
      [] a = 90 -> R(0)
      [] a = 120 -> <<-1, 2>>
      [] a = 180 -> R(-1)

\* _get_solar_position: apparent zenith and azimuth by hour; the sun is
\* below the horizon in even hours and due south at 60 degrees in odd hours
get_solar_position(time) ==
    [apparent_zenith |-> IF time % 2 = 0 THEN 120 ELSE 60, azimuth |-> 180]

\* _calculate_aoi: pvlib.irradiance.aoi for a sun in the surface's azimuth
\* plane (azimuth difference a multiple of 180 degrees)
calculate_aoi(tilt, azimuth, sp) ==
    LET facing == (azimuth - sp.azimuth) % 360 = 0
        a == IF facing THEN Abs(sp.apparent_zenith - tilt)
             ELSE sp.apparent_zenith + tilt
    IN  IF a > 180 THEN 360 - a ELSE a

\* _calculate_poa_components: pvlib.irradiance.get_total_irradiance; the
\* sky diffuse term is Perez with its brightening coefficients at zero,
\* and zero while the airmass is undefined (sun below the horizon)
calculate_poa_components(row, tilt, azimuth, albedo, sp) ==
    LET aoi == calculate_aoi(tilt, azimuth, sp)
        poa_direct == RMax(RMul(R(row.dni), CosDeg(aoi)), R(0))
        poa_sky_diffuse ==
            IF sp.apparent_zenith > 90 THEN R(0)
            ELSE RMax(RMul(R(row.dhi),
                           RMul(RAdd(R(1), CosDeg(tilt)), <<1, 2>>)), R(0))
        poa_ground_diffuse ==
            RMul(RMul(R(row.ghi), albedo),
                 RMul(RSub(R(1), CosDeg(tilt)), <<1, 2>>))
        poa_diffuse == RAdd(poa_sky_diffuse, poa_ground_diffuse)
    IN  [poa_global |-> RAdd(poa_direct, poa_diffuse),
         poa_direct |-> poa_direct,
         poa_diffuse |-> poa_diffuse,
         poa_sky_diffuse |-> poa_sky_diffuse,
         poa_ground_diffuse |-> poa_ground_diffuse]

\* pvlib.iam.physical(aoi, n=1.526, K=4.0, L=0.002), to two decimals;
\* undefined beyond 90 degrees
iam_physical(aoi) ==
    CASE aoi = 0 -> R(1)
      [] aoi = 60 -> <<19, 20>>
      [] OTHER -> NaN

\* _calculate_iam
calculate_iam(aoi) == Clip(FillNa(iam_physical(aoi)), R(0), R(1))

\* calculate_poa, one row of result_df
calculate_poa_row(row, tilt, azimuth, albedo) ==
    LET sp == get_solar_position(row.time)
        c == calculate_poa_components(row, tilt, azimuth, albedo, sp)
        aoi == calculate_aoi(tilt, azimuth, sp)
        iam == calculate_iam(aoi)
    IN  [time |-> row.time, ghi |-> row.ghi, dni |-> row.dni,
         dhi |-> row.dhi, temp_air |-> row.temp_air,
         wind_speed |-> row.wind_speed,
         solar_zenith |-> sp.apparent_zenith, aoi |-> aoi,
         poa_global |-> c.poa_global, iam |-> iam,
         poa_effective |-> ClipLower(RMul(c.poa_global, iam), R(0))]

\* calculate_poa
calculate_poa(df, tilt, azimuth, albedo) ==
    [i \in DOMAIN df |-> calculate_poa_row(df[i], tilt, azimuth, albedo)]

-----------------------------------------------------------------------------
(* Cell temperature (models/temperature.py) *)

\* _get_temperature_model_params: <<u0, u1>> (faiman) or <<u_c, u_v>>
get_temperature_model_params(mounting_type, model) ==
    IF model = "faiman"
    THEN CASE mounting_type = "roof_mounted" -> <<R(29), R(1)>>
           [] mounting_type = "open_rack" -> <<R(25), <<171, 25>> >>
           [] OTHER -> <<R(26), <<6, 5>> >>
    ELSE IF model = "pvsyst"
    THEN CASE mounting_type = "roof_mounted" -> <<R(29), R(0)>>
           [] OTHER -> <<R(25), <<6, 5>> >>
    ELSE <<R(25), <<171, 25>> >>

\* pvlib.temperature.faiman
faiman(poa_global, temp_air, wind_speed, u0, u1) ==
    RAdd(temp_air, RDiv(poa_global, RAdd(u0, RMul(u1, wind_speed))))

\* pvlib.temperature.pvsyst_cell with its default absorption 0.9 and
\* module efficiency 0.1
pvsyst_cell(poa_global, temp_air, wind_speed, u_c, u_v) ==
    RAdd(temp_air,
         RDiv(RMul(poa_global, <<81, 100>>), RAdd(u_c, RMul(u_v, wind_speed))))

\* post-processing step 1: at night the cell is at ambient temperature
NightToAmbient(poa_global, temp_air, t) ==
    IF RLe(poa_global, R(0)) THEN temp_air ELSE t

\* post-processing step 2: np.maximum(cell_temp, temp_air)
FloorAtAmbient(temp_air, t) == RMax(t, temp_air)

\* step 3 with a wrong lower bound
ClipOperatingRangeFromZero(t) == Clip(t, R(0), R(85))

\* post-processing step 3: cell_temp.clip(lower=-40, upper=85)
ClipOperatingRange(t) == Clip(t, R(-40), R(85))

\* calculate_cell_temperature without the night rule and the ambient floor
cell_temperature_no_floor(poa_global, temp_air, wind_speed, mounting_type, model) ==
    LET params == get_temperature_model_params(mounting_type, model)
        noct == IF mounting_type = "roof_mounted" THEN 50 ELSE 45
        raw == IF model = "faiman"
               THEN faiman(poa_global, temp_air, wind_speed,
                           params[1], params[2])
               ELSE IF model = "pvsyst"
               THEN pvsyst_cell(poa_global, temp_air, wind_speed,
                                params[1], params[2])
               ELSE RAdd(temp_air, RMul(<<noct - 20, 800>>, poa_global))
    IN  ClipOperatingRange(raw)

\* calculate_cell_temperature, one element
cell_temperature(poa_global, temp_air, wind_speed, mounting_type, model) ==
    LET params == get_temperature_model_params(mounting_type, model)
        noct == IF mounting_type = "roof_mounted" THEN 50 ELSE 45
        raw == IF model = "faiman"
               THEN faiman(poa_global, temp_air, wind_speed,
                           params[1], params[2])
               ELSE IF model = "pvsyst"
               THEN pvsyst_cell(poa_global, temp_air, wind_speed,
                                params[1], params[2])
               ELSE RAdd(temp_air, RMul(<<noct - 20, 800>>, poa_global))
    IN  ClipOperatingRange(
            FloorAtAmbient(temp_air,
                           NightToAmbient(poa_global, temp_air, raw)))

\* calculate_cell_temperature with the irradiance of the hour before (the
\* first row uses its own)
calculate_cell_temperature_lagged(df, mounting_type, model) ==
    [i \in DOMAIN df |->
        cell_temperature(df[IF i = 1 THEN 1 ELSE i - 1].poa_global,
                         R(df[i].temp_air), R(df[i].wind_speed),
                         mounting_type, model)]

\* calculate_cell_temperature on the POA frame's columns
calculate_cell_temperature(df, mounting_type, model) ==
    [i \in DOMAIN df |->
        cell_temperature(df[i].poa_global, R(df[i].temp_air),
                         R(df[i].wind_speed), mounting_type, model)]

-----------------------------------------------------------------------------
(* System losses (models/losses.py) *)

\* apply_all_losses multiplying by the loss instead of the retained fraction
RECURSIVE apply_all_losses_by_loss(_, _)
apply_all_losses_by_loss(power, loss_params) ==
    IF loss_params = << >> THEN power
    ELSE LET loss_value == Head(loss_params)[2]
             after == IF RLt(R(0), loss_value)
                      THEN RMul(power, loss_value)
                      ELSE power
         IN  apply_all_losses_by_loss(after, Tail(loss_params))

\* apply_all_losses on one power value: each positive loss in dict order
RECURSIVE apply_all_losses(_, _)
apply_all_losses(power, loss_params) ==
    IF loss_params = << >> THEN power
    ELSE LET loss_value == Head(loss_params)[2]
             after == IF RLt(R(0), loss_value)
                      THEN RMul(power, RSub(R(1), loss_value))
                      ELSE power
         IN  apply_all_losses(after, Tail(loss_params))

\* apply_all_losses on a Series
apply_all_losses_series(series, loss_params) ==
    [i \in DOMAIN series |-> apply_all_losses(series[i], loss_params)]

\* get_total_loss_factor
RECURSIVE RetentionFrom(_, _)
RetentionFrom(retention_factor, loss_params) ==
    IF loss_params = << >> THEN retention_factor
    ELSE RetentionFrom(RMul(retention_factor,
                            RSub(R(1), Head(loss_params)[2])),
                       Tail(loss_params))

get_total_loss_factor(loss_params) == RetentionFrom(R(1), loss_params)

\* get_total_loss_percentage
get_total_loss_percentage(loss_params) ==
    RMul(RSub(R(1), get_total_loss_factor(loss_params)), R(100))

\* Series.sum()
RECURSIVE SeriesSum(_)
SeriesSum(series) ==
    IF Len(series) = 0 THEN R(0)
    ELSE RAdd(SeriesSum(SubSeq(series, 1, Len(series) - 1)),
              series[Len(series)])

\* Series * factor
Scaled(series, factor) == [i \in DOMAIN series |-> RMul(series[i], factor)]

\* the loop of get_loss_breakdown with every loss taken from the power it
\* starts with
RECURSIVE loss_breakdown_items_of_input(_, _)
loss_breakdown_items_of_input(cumulative_power, loss_params) ==
    IF loss_params = << >> THEN << >>
    ELSE LET loss_name == Head(loss_params)[1]
             loss_percentage == Head(loss_params)[2]
         IN  IF RLt(R(0), loss_percentage)
             THEN <<[name |-> loss_name,
                     percentage |-> RMul(loss_percentage, R(100)),
                     energy_loss_kwh |->
                         SeriesSum(Scaled(cumulative_power,
                                          loss_percentage))]>>
                  \o loss_breakdown_items_of_input(cumulative_power,
                                                   Tail(loss_params))
             ELSE loss_breakdown_items_of_input(cumulative_power,
                                                Tail(loss_params))

\* the loop of get_loss_breakdown from the given cumulative_power on: the
\* entries of the categories with a positive loss, in dict order
RECURSIVE loss_breakdown_items(_, _)
loss_breakdown_items(cumulative_power, loss_params) ==
    IF loss_params = << >> THEN << >>
    ELSE LET loss_name == Head(loss_params)[1]
             loss_percentage == Head(loss_params)[2]
         IN  IF RLt(R(0), loss_percentage)
             THEN <<[name |-> loss_name,
                     percentage |-> RMul(loss_percentage, R(100)),
                     energy_loss_kwh |->
                         SeriesSum(Scaled(cumulative_power,
                                          loss_percentage))]>>
                  \o loss_breakdown_items(
                         Scaled(cumulative_power,
                                RSub(R(1), loss_percentage)),
                         Tail(loss_params))
             ELSE loss_breakdown_items(cumulative_power, Tail(loss_params))

\* cumulative_power when the loop of get_loss_breakdown ends
RECURSIVE cumulative_power_after(_, _)
cumulative_power_after(cumulative_power, loss_params) ==
    IF loss_params = << >> THEN cumulative_power
    ELSE LET loss_percentage == Head(loss_params)[2]
         IN  cumulative_power_after(
                 IF RLt(R(0), loss_percentage)
                 THEN Scaled(cumulative_power, RSub(R(1), loss_percentage))
                 ELSE cumulative_power,
                 Tail(loss_params))

\* get_loss_breakdown: the per-category entries and the 'total' entry
get_loss_breakdown(dc_power_series, loss_params) ==
    [items |-> loss_breakdown_items(dc_power_series, loss_params),
     total |->
         [percentage |-> get_total_loss_percentage(loss_params),
          energy_loss_kwh |->
              RSub(SeriesSum(dc_power_series),
                   SeriesSum(cumulative_power_after(dc_power_series,
                                                    loss_params)))]]

\* the keys of a loss_params dict
LossKeys(loss_params) == {loss_params[i][1] : i \in DOMAIN loss_params}

\* loss_params[loss_name]
LossValue(loss_params, loss_name) ==
    loss_params[CHOOSE i \in DOMAIN loss_params :
                    loss_params[i][1] = loss_name][2]

\* apply_individual_loss: the exception raised ("none" when the call
\* returns) and the returned value, if any
apply_individual_loss(power, loss_name, loss_params) ==
    IF loss_name \notin LossKeys(loss_params)
    THEN [raised |-> "ValueError", returned |-> << >>]
    ELSE [raised |-> "none",
          returned |-> <<RMul(power,
                              RSub(R(1),
                                   LossValue(loss_params, loss_name)))>>]

-----------------------------------------------------------------------------
(* DC and AC power (core/pv_simulator.py) *)

\* pvwatts_dc with the temperature correction added to the irradiance term
\* instead of multiplying it
pvwatts_dc_additive(effective_irradiance, temp_cell, pdc0, gamma_pdc, temp_ref) ==
    Quant(RAdd(RMul(effective_irradiance, <<pdc0, 1000>>),
               RMul(R(pdc0), RMul(gamma_pdc, RSub(temp_cell, R(temp_ref))))))

\* pvlib.pvsystem.pvwatts_dc
pvwatts_dc(effective_irradiance, temp_cell, pdc0, gamma_pdc, temp_ref) ==
    Quant(RMul(RMul(effective_irradiance, <<pdc0, 1000>>),
               RAdd(R(1), RMul(gamma_pdc, RSub(temp_cell, R(temp_ref))))))

\* _calculate_dc_power, one element
calculate_dc_power(poa_effective, temp_cell, system, module) ==
    ClipLower(pvwatts_dc(poa_effective, temp_cell, system.capacity_kw,
                         module.gamma_pmp, module.T_ref), R(0))

\* pvlib.inverter.pvwatts: eta = eta_nom / eta_ref *
\* (-0.0162 zeta - 0.0059 / zeta + 0.9858), zeta = pdc / pdc0, the product
\* eta * pdc limited to [0, eta_nom * pdc0]; loading and efficiency are
\* evaluated to four decimals, power to 1/Grid
inverter_pvwatts(pdc, pdc0, eta_inv_nom, eta_inv_ref) ==
    LET x == FloorTimes(pdc, Grid)
        zeta == (x * 10000) \div (pdc0 * Grid)
        inner == IF x = 0 THEN 9858
                 ELSE 9858 - (162 * zeta) \div 10000 - 590000 \div zeta
        k == RDiv(eta_inv_nom, eta_inv_ref)
        power_ac == Norm((((inner * x) \div 10000) * k[1]) \div k[2], Grid)
        pac0 == RMul(eta_inv_nom, R(pdc0))
    IN  RMax(R(0), RMin(pac0, power_ac))

\* _calculate_ac_power without the upper limit pac0
calculate_ac_power_no_upper(dc, inverter) ==
    ClipLower(inverter_pvwatts(dc, inverter.pdc0, inverter.eta_inv_nom,
                               inverter.eta_inv_ref), R(0))

\* _calculate_ac_power with the output forced to zero below the inverter's
\* DC startup threshold pdc_min
calculate_ac_power_with_startup(dc, inverter) ==
    IF RLt(dc, R(inverter.pdc_min)) THEN R(0)
    ELSE Clip(inverter_pvwatts(dc, inverter.pdc0, inverter.eta_inv_nom,
                               inverter.eta_inv_ref),
              R(0), R(inverter.pac0))

\* _calculate_ac_power, one element
calculate_ac_power(dc, inverter) ==
    Clip(inverter_pvwatts(dc, inverter.pdc0, inverter.eta_inv_nom,
                          inverter.eta_inv_ref),
         R(0), R(inverter.pac0))

\* _format_results with reset_index(drop=True): the positions 0, 1, ...
\* replace the datetime index
format_results_drop_index(df, energy_kwh) ==
    [i \in DOMAIN df |->
        [datetime |-> i - 1, energy_kwh |-> FillNa(energy_kwh[i])]]

\* _format_results: the energy column with the datetime index as a column
format_results(df, energy_kwh) ==
    [i \in DOMAIN df |->
        [datetime |-> df[i].time, energy_kwh |-> FillNa(energy_kwh[i])]]

\* run_simulation after the weather is loaded, as a function of the
\* simulator's dictionaries and the weather frame: the series of steps 2-7,
\* each a sequence of its own (\o << >>)
run_simulation(c, weather) ==
    LET poa == calculate_poa(weather, c.system.tilt, c.system.azimuth,
                             c.system.albedo) \o << >>
        temp == calculate_cell_temperature(poa, c.system.mounting_type,
                                           "faiman") \o << >>
        dc == [i \in DOMAIN poa |->
                  calculate_dc_power(poa[i].poa_effective, temp[i],
                                     c.system, c.module)] \o << >>
        after_loss == apply_all_losses_series(dc, c.loss_params) \o << >>
        ac == [i \in DOMAIN after_loss |->
                  calculate_ac_power(after_loss[i], c.inverter)] \o << >>
    IN  [poa_df |-> poa, cell_temp |-> temp, dc_power |-> dc,
         dc_power_after_loss |-> after_loss, ac_power |-> ac,
         results_df |-> format_results(poa, ac)]

-----------------------------------------------------------------------------
(* main() and PVSimulator.run_simulation as a state machine *)

NoError == [stage |-> "none", kind |-> "none"]
NoProbe == [fn |-> "none"]

\* the steps with the loss cascade run in place of the DC step
NextStageSkipDC(stage) ==
    CASE stage = "Created" -> "WeatherLoaded"
      [] stage = "WeatherLoaded" -> "GeometryResolved"
      [] stage = "GeometryResolved" -> "TemperatureComputed"
      [] stage = "TemperatureComputed" -> "LossesApplied"
      [] stage = "DCComputed" -> "LossesApplied"
      [] stage = "LossesApplied" -> "ACComputed"
      [] stage = "ACComputed" -> "Finalized"

\* the order of the steps of run_simulation: the state a step leaves
NextStage(stage) ==
    CASE stage = "Created" -> "WeatherLoaded"
      [] stage = "WeatherLoaded" -> "GeometryResolved"
      [] stage = "GeometryResolved" -> "TemperatureComputed"
      [] stage = "TemperatureComputed" -> "DCComputed"
      [] stage = "DCComputed" -> "LossesApplied"
      [] stage = "LossesApplied" -> "ACComputed"
      [] stage = "ACComputed" -> "Finalized"

\* a step of run_simulation completed
Advance ==
    /\ pc' = NextStage(pc)
    /\ stages' = Append(stages, NextStage(pc))
    /\ UNCHANGED <<exit_code, error>>

\* an exception of a step caught inside run_simulation: the run goes on
AbortSwallowed(kind) ==
    /\ pc' = IF pc \in {"Start", "Finalized"} THEN "Failed"
             ELSE IF pc = "Created" THEN "WeatherLoaded"
             ELSE IF pc = "TemperatureComputed" THEN "DCComputed"
             ELSE "ACComputed"
    /\ exit_code' = IF pc \in {"Start", "Finalized"} THEN 1 ELSE exit_code
    /\ error' = [stage |-> pc, kind |-> kind]
    /\ UNCHANGED stages

\* an exception leaves run_simulation (or the constructor, or the export)
\* and reaches main's except clause, which returns 1
Abort(kind) ==
    /\ pc' = "Failed"
    /\ exit_code' = 1
    /\ error' = [stage |-> pc, kind |-> kind]
    /\ UNCHANGED stages

Init ==
    /\ pc = "Start"
    /\ config \in Configs
    /\ remote \in Responses
    /\ weather_df = << >>
    /\ validation = << >>
    /\ poa_df = << >>
    /\ cell_temp = << >>
    /\ dc_power = << >>
    /\ dc_power_after_loss = << >>
    /\ ac_power = << >>
    /\ results_df = << >>
    /\ exported = 0
    /\ exit_code = -1
    /\ error = NoError
    /\ stages = << >>
    /\ probe_in = NoProbe
    /\ probe_out = << >>

\* PVSimulator.__init__: stores the dictionaries and builds the sub-models
Construct ==
    /\ pc = "Start"
    /\ IF config.missing = "mounting_type"
       THEN Abort("KeyError")
       ELSE /\ pc' = "Created"
            /\ UNCHANGED <<exit_code, error, stages>>
    /\ UNCHANGED <<config, remote, weather_df, validation, poa_df, cell_temp,
                   dc_power, dc_power_after_loss, ac_power, results_df,
                   exported, probe_in, probe_out>>

\* step 1: fetch_tmy_data, which validates the parsed frame and only
\* reports the outcome
FetchWeather ==
    /\ pc = "Created"
    /\ IF config.missing = "name"
       THEN Abort("KeyError") /\ UNCHANGED <<weather_df, validation>>
       ELSE IF remote.status # "ok"
       THEN Abort("Exception") /\ UNCHANGED <<weather_df, validation>>
       ELSE /\ weather_df' = parse_tmy_data(remote.tmy_hourly)
            /\ validation' = <<validate_data(weather_df')>>
            /\ Advance
    /\ UNCHANGED <<config, remote, poa_df, cell_temp, dc_power,
                   dc_power_after_loss, ac_power, results_df, exported,
                   probe_in, probe_out>>

\* step 2: calculate_poa
CalculatePOA ==
    /\ pc = "WeatherLoaded"
    /\ poa_df' = calculate_poa(weather_df, config.system.tilt,
                               config.system.azimuth, config.system.albedo)
    /\ Advance
    /\ UNCHANGED <<config, remote, weather_df, validation, cell_temp,
                   dc_power, dc_power_after_loss, ac_power, results_df,
                   exported, probe_in, probe_out>>

\* step 3: calculate_cell_temperature (the simulator's model is faiman)
CalculateCellTemperature ==
    /\ pc = "GeometryResolved"
    /\ cell_temp' = calculate_cell_temperature(
                        poa_df, config.system.mounting_type, "faiman")
    /\ Advance
    /\ UNCHANGED <<config, remote, weather_df, validation, poa_df, dc_power,
                   dc_power_after_loss, ac_power, results_df, exported,
                   probe_in, probe_out>>

\* step 4: _calculate_dc_power
CalculateDCPower ==
    /\ pc = "TemperatureComputed"
    /\ IF config.missing = "gamma_pmp"
       THEN Abort("KeyError") /\ UNCHANGED dc_power
       ELSE /\ dc_power' =
                [i \in DOMAIN poa_df |->
                    calculate_dc_power(poa_df[i].poa_effective, cell_temp[i],
                                       config.system, config.module)]
            /\ Advance
    /\ UNCHANGED <<config, remote, weather_df, validation, poa_df, cell_temp,
                   dc_power_after_loss, ac_power, results_df, exported,
                   probe_in, probe_out>>

\* step 5 with the losses applied to the caller's series in place (no copy)
ApplyLossesInPlace ==
    /\ pc = "DCComputed"
    /\ dc_power_after_loss' =
           apply_all_losses_series(dc_power, config.loss_params)
    /\ dc_power' = dc_power_after_loss'
    /\ Advance
    /\ UNCHANGED <<config, remote, weather_df, validation, poa_df, cell_temp,
                   ac_power, results_df, exported, probe_in, probe_out>>

\* step 5: apply_all_losses
ApplyLosses ==
    /\ pc = "DCComputed"
    /\ dc_power_after_loss' =
           apply_all_losses_series(dc_power, config.loss_params)
    /\ Advance
    /\ UNCHANGED <<config, remote, weather_df, validation, poa_df, cell_temp,
                   dc_power, ac_power, results_df, exported, probe_in,
                   probe_out>>

\* step 6: _calculate_ac_power
CalculateACPower ==
    /\ pc = "LossesApplied"
    /\ IF config.missing = "pac0"
       THEN Abort("KeyError") /\ UNCHANGED ac_power
       ELSE /\ ac_power' =
                [i \in DOMAIN dc_power_after_loss |->
                    calculate_ac_power(dc_power_after_loss[i],
                                       config.inverter)]
            /\ Advance
    /\ UNCHANGED <<config, remote, weather_df, validation, poa_df, cell_temp,
                   dc_power, dc_power_after_loss, results_df, exported,
                   probe_in, probe_out>>

\* step 7: energy_kwh = ac_power, _format_results, return results_df
FormatResults ==
    /\ pc = "ACComputed"
    /\ results_df' = format_results(poa_df, ac_power)
    /\ Advance
    /\ UNCHANGED <<config, remote, weather_df, validation, poa_df, cell_temp,
                   dc_power, dc_power_after_loss, ac_power, exported,
                   probe_in, probe_out>>

\* main: export_simulation_results succeeds and main returns 0
ExportOk ==
    /\ pc = "Finalized"
    /\ exported' = exported + 1
    /\ pc' = "Done"
    /\ exit_code' = 0
    /\ UNCHANGED <<config, remote, weather_df, validation, poa_df, cell_temp,
                   dc_power, dc_power_after_loss, ac_power, results_df,
                   error, stages, probe_in, probe_out>>

\* main: os.makedirs("output", exist_ok=True) raises before the export is
\* called ("output" exists and is not a directory)
MakeDirsFail ==
    /\ pc = "Finalized"
    /\ Abort("FileExistsError")
    /\ UNCHANGED <<config, remote, weather_df, validation, poa_df, cell_temp,
                   dc_power, dc_power_after_loss, ac_power, results_df,
                   exported, probe_in, probe_out>>

\* main with the export's exception swallowed: main goes on and returns 0
ExportFailIgnored ==
    /\ pc = "Finalized"
    /\ exported' = exported + 1
    /\ pc' = "Done"
    /\ exit_code' = 0
    /\ error' = [stage |-> pc, kind |-> "OSError"]
    /\ UNCHANGED <<config, remote, weather_df, validation, poa_df, cell_temp,
                   dc_power, dc_power_after_loss, ac_power, results_df,
                   stages, probe_in, probe_out>>

\* main: the export raises (the workbook cannot be written)
ExportFail ==
    /\ pc = "Finalized"
    /\ exported' = exported + 1
    /\ Abort("OSError")
    /\ UNCHANGED <<config, remote, weather_df, validation, poa_df, cell_temp,
                   dc_power, dc_power_after_loss, ac_power, results_df,
                   probe_in, probe_out>>

Next ==
    \/ Construct
    \/ FetchWeather
    \/ CalculatePOA
    \/ CalculateCellTemperature
    \/ CalculateDCPower
    \/ ApplyLosses
    \/ CalculateACPower
    \/ FormatResults
    \/ MakeDirsFail
    \/ ExportOk
    \/ ExportFail

Spec == Init /\ [][Next]_vars

-----------------------------------------------------------------------------
(* SystemLosses called directly on a loss profile and a power value *)

\* the pipeline's variables while a sub-model is called on its own
Idle ==
    /\ pc = "Probe"
    /\ config = BaseConfig
    /\ remote = [status |-> "none", tmy_hourly |-> << >>]
    /\ weather_df = << >>
    /\ validation = << >>
    /\ poa_df = << >>
    /\ cell_temp = << >>
    /\ dc_power = << >>
    /\ dc_power_after_loss = << >>
    /\ ac_power = << >>
    /\ results_df = << >>
    /\ exported = 0
    /\ exit_code = -1
    /\ error = NoError
    /\ stages = << >>

IdleUnchanged ==
    UNCHANGED <<pc, config, remote, weather_df, validation, poa_df,
                cell_temp, dc_power, dc_power_after_loss, ac_power,
                results_df, exported, exit_code, error, stages, probe_in>>

LossFractions == {R(0), <<1, 50>>, <<1, 10>>, <<1, 2>>, <<-1, 10>>}
ProbePowers == {R(0), R(1000), <<5, 2>>}

\* the loss_params dict with the given values under the first names
Profile(values) == [i \in DOMAIN values |-> <<LossNames[i], values[i]>>]

\* the orderings of n categories
Orders(n) ==
    {f \in [1..n -> 1..n] : \A i, j \in 1..n : f[i] = f[j] => i = j}

\* the same dict with its items inserted in another order
Reordered(loss_params, order) ==
    [i \in DOMAIN loss_params |-> loss_params[order[i]]]

InitLosses ==
    /\ Idle
    /\ \E n \in 0..MaxCats :
         \E values \in [1..n -> LossFractions], order \in Orders(n),
            power \in ProbePowers :
               probe_in = [fn |-> "SystemLosses", power |-> power,
                           loss_params |-> Profile(values),
                           order |-> order]
    /\ probe_out = << >>

CallGetTotalLossFactor ==
    /\ pc = "Probe" /\ probe_in.fn = "SystemLosses" /\ probe_out = << >>
    /\ probe_out' =
         <<[fn |-> "get_total_loss_factor",
            value |-> get_total_loss_factor(
                          Reordered(probe_in.loss_params, probe_in.order))]>>
    /\ IdleUnchanged

CallApplyAllLosses ==
    /\ pc = "Probe" /\ probe_in.fn = "SystemLosses" /\ probe_out = << >>
    /\ probe_out' =
         <<[fn |-> "apply_all_losses",
            value |-> apply_all_losses(
                          probe_in.power,
                          Reordered(probe_in.loss_params, probe_in.order))]>>
    /\ IdleUnchanged

\* the names a caller may pass: the keys of the largest profile and one more
ProbeLossNames == {LossNames[i] : i \in 1..(MaxCats + 1)}

CallApplyIndividualLoss ==
    /\ pc = "Probe" /\ probe_in.fn = "SystemLosses" /\ probe_out = << >>
    /\ \E loss_name \in ProbeLossNames :
         LET call == apply_individual_loss(probe_in.power, loss_name,
                                           probe_in.loss_params)
         IN  probe_out' = <<[fn |-> "apply_individual_loss",
                             loss_name |-> loss_name,
                             raised |-> call.raised,
                             returned |-> call.returned]>>
    /\ IdleUnchanged

\* hourly DC power series (kW) passed to get_loss_breakdown
ProbeSeries == { <<R(1000)>>, <<R(0), R(1000)>>, <<R(1000), R(500), R(0)>> }

CallGetLossBreakdown ==
    /\ pc = "Probe" /\ probe_in.fn = "SystemLosses" /\ probe_out = << >>
    /\ \E dc_power_series \in ProbeSeries :
         probe_out' =
             <<[fn |-> "get_loss_breakdown",
                dc_power_series |-> dc_power_series,
                value |-> get_loss_breakdown(
                              dc_power_series,
                              Reordered(probe_in.loss_params,
                                        probe_in.order))]>>
    /\ IdleUnchanged

NextLosses ==
    \/ CallGetTotalLossFactor
    \/ CallApplyAllLosses
    \/ CallApplyIndividualLoss
    \/ CallGetLossBreakdown

SpecLosses == InitLosses /\ [][NextLosses]_vars

-----------------------------------------------------------------------------
(* TemperatureModel called directly, for each model and mounting type *)

ProbePOA == {-15, 0, 350, 1000}
ProbeTemps == {-50, -40, 10, 85, 90}
ProbeWinds == {0, 2}
MountingTypes == {"roof_mounted", "open_rack", "insulated_back"}
TemperatureModels == {"faiman", "pvsyst", "linear"}

InitTemperature ==
    /\ Idle
    /\ probe_in \in [fn : {"TemperatureModel"}, poa_global : ProbePOA,
                     temp_air : ProbeTemps, wind_speed : ProbeWinds,
                     mounting_type : MountingTypes,
                     model : TemperatureModels]
    /\ probe_out = << >>

CallCalculateCellTemperature ==
    /\ pc = "Probe" /\ probe_in.fn = "TemperatureModel" /\ probe_out = << >>
    /\ probe_out' =
         <<[fn |-> "calculate_cell_temperature",
            value |-> cell_temperature(
                          R(probe_in.poa_global), R(probe_in.temp_air),
                          R(probe_in.wind_speed), probe_in.mounting_type,
                          probe_in.model)]>>
    /\ IdleUnchanged

NextTemperature == CallCalculateCellTemperature

SpecTemperature == InitTemperature /\ [][NextTemperature]_vars

-----------------------------------------------------------------------------
(* Properties *)

RGe0(a) == ~IsNaN(a) /\ RLe(R(0), a)

\* the product of (1 - L[i]) over the categories, last category first
RECURSIVE RetainedProduct(_)
RetainedProduct(L) ==
    IF Len(L) = 0 THEN R(1)
    ELSE RMul(RSub(R(1), L[Len(L)][2]),
              RetainedProduct([i \in 1..(Len(L) - 1) |-> L[i]]))

FractionsInRange(L) ==
    \A i \in DOMAIN L : RLe(R(0), L[i][2]) /\ RLt(L[i][2], R(1))

NonZeroCategories(L) == SelectSeq(L, LAMBDA c : c[2] # R(0))

\* C1: for a loss profile with fractions in [0,1), get_total_loss_factor
\* returns the product of (1 - L[i]) whatever the order of the categories,
\* and apply_all_losses returns the power times that product, which is
\* also the product over the non-zero categories alone.
C1_LossProduct ==
    (probe_out # << >> /\ probe_in.fn = "SystemLosses"
       /\ FractionsInRange(probe_in.loss_params)) =>
        LET L == probe_in.loss_params
            out == probe_out[1]
        IN  /\ out.fn = "get_total_loss_factor" =>
                 out.value = RetainedProduct(L)
            /\ out.fn = "apply_all_losses" =>
                 /\ out.value = RMul(probe_in.power, RetainedProduct(L))
                 /\ out.value = RMul(probe_in.power,
                                     RetainedProduct(NonZeroCategories(L)))

C1_Witness ==
    /\ probe_out # << >> /\ probe_in.fn = "SystemLosses"
    /\ probe_out[1].fn = "apply_all_losses"
    /\ FractionsInRange(probe_in.loss_params)
    /\ Len(probe_in.loss_params) >= 3
    /\ probe_in.order[1] # 1
    /\ \E i \in DOMAIN probe_in.loss_params :
           probe_in.loss_params[i][2] = R(0)
    /\ \E i, j \in DOMAIN probe_in.loss_params :
           /\ probe_in.loss_params[i][2] # R(0)
           /\ probe_in.loss_params[j][2] # R(0)
           /\ probe_in.loss_params[i][2] # probe_in.loss_params[j][2]
    /\ RLt(R(0), probe_out[1].value)
    /\ RLt(probe_out[1].value, probe_in.power)

\* C2: every DC power is >= 0 and every AC power lies in [0, pac0].
C2_PowerBounds ==
    /\ \A i \in DOMAIN dc_power : RGe0(dc_power[i])
    /\ \A i \in DOMAIN ac_power :
           RGe0(ac_power[i]) /\ RLe(ac_power[i], R(config.inverter.pac0))

C2_Witness ==
    \E i \in DOMAIN ac_power :
        /\ ac_power[i] = R(config.inverter.pac0)
        /\ RLt(R(config.inverter.pac0), dc_power_after_loss[i])
        /\ \E j \in DOMAIN dc_power :
               dc_power[j] = R(0) /\ ac_power[j] = R(0)

\* C3: with pac0 = 1000 kW, an hour whose DC power into the inverter
\* exceeds 1000 kW has AC power exactly 1000 kW.
C3_ClampedAtPac0 ==
    config.inverter.pac0 = 1000 =>
        \A i \in DOMAIN ac_power :
            RLt(R(1000), dc_power_after_loss[i]) => ac_power[i] = R(1000)

\* C4 as stated: when poa_global <= 0 the cell temperature equals the
\* ambient temperature exactly.
C4_NightEqualsAmbient ==
    (probe_out # << >> /\ probe_in.fn = "TemperatureModel"
       /\ probe_in.poa_global <= 0) =>
        probe_out[1].value = R(probe_in.temp_air)

\* C4 amended: when poa_global <= 0 the cell temperature equals the ambient
\* temperature limited to [-40, 85], hence the ambient temperature itself
\* whenever that lies in [-40, 85].
C4_NightEqualsClampedAmbient ==
    (probe_out # << >> /\ probe_in.fn = "TemperatureModel"
       /\ probe_in.poa_global <= 0) =>
        /\ probe_out[1].value =
               RMin(RMax(R(probe_in.temp_air), R(-40)), R(85))
        /\ (-40 <= probe_in.temp_air /\ probe_in.temp_air <= 85) =>
               probe_out[1].value = R(probe_in.temp_air)

C4_Witness ==
    /\ probe_out # << >> /\ probe_in.fn = "TemperatureModel"
    /\ probe_in.poa_global < 0
    /\ probe_in.model = "pvsyst"
    /\ probe_in.temp_air = -50
    /\ probe_out[1].value = R(-40)

\* C5: in every row of the result of calculate_poa, 0 <= iam <= 1 and
\* 0 <= poa_effective <= poa_global.
C5_IamAndEffectivePOABounds ==
    \A i \in DOMAIN poa_df :
        /\ RGe0(poa_df[i].iam) /\ RLe(poa_df[i].iam, R(1))
        /\ RGe0(poa_df[i].poa_effective)
        /\ RLe(poa_df[i].poa_effective, poa_df[i].poa_global)

\* C6: the result of run_simulation has one (datetime, energy_kwh) row per
\* row of the weather frame, in the same order, with energy_kwh >= 0.
C6_ResultsAligned ==
    /\ pc \in {"Finalized", "Done"} => results_df # << >>
    /\ results_df # << >> =>
         /\ Len(results_df) = Len(weather_df)
         /\ \A i \in DOMAIN results_df :
                /\ results_df[i].datetime = weather_df[i].time
                /\ RGe0(results_df[i].energy_kwh)

C6_Witness ==
    /\ pc = "Finalized"
    /\ Len(results_df) = MaxHours
    /\ \E i \in DOMAIN results_df : RLt(R(0), results_df[i].energy_kwh)
    /\ \E i \in DOMAIN results_df : results_df[i].datetime # i - 1

StageOrder == <<"WeatherLoaded", "GeometryResolved", "TemperatureComputed",
                "DCComputed", "LossesApplied", "ACComputed", "Finalized">>

\* C7: the steps of run_simulation run in the fixed order, none skipped or
\* repeated, and a step's output exists exactly when the step has run.
C7_StageOrder ==
    /\ Len(stages) <= Len(StageOrder)
    /\ \A i \in DOMAIN stages : stages[i] = StageOrder[i]
    /\ pc \in {StageOrder[i] : i \in DOMAIN StageOrder} =>
           stages # << >> /\ pc = stages[Len(stages)]
    /\ weather_df # << >> <=> Len(stages) >= 1
    /\ poa_df # << >> <=> Len(stages) >= 2
    /\ cell_temp # << >> <=> Len(stages) >= 3
    /\ dc_power # << >> <=> Len(stages) >= 4
    /\ dc_power_after_loss # << >> <=> Len(stages) >= 5
    /\ ac_power # << >> <=> Len(stages) >= 6
    /\ results_df # << >> <=> Len(stages) >= 7
    /\ exported > 0 => Len(stages) = 7

C7_Witness == pc = "Finalized" /\ stages = StageOrder /\ exported = 0

\* the number of steps completed when the run is in the given state
StageIndex(stage) ==
    CASE stage \in {"Start", "Created"} -> 0
      [] stage = "WeatherLoaded" -> 1
      [] stage = "GeometryResolved" -> 2
      [] stage = "TemperatureComputed" -> 3
      [] stage = "DCComputed" -> 4
      [] stage = "LossesApplied" -> 5
      [] stage = "ACComputed" -> 6
      [] stage = "Finalized" -> 7

\* C8: when a step of run_simulation raises, the run is over: no later step
\* has run or produced output, no result exists and none is exported.
C8_FailureAborts ==
    error.kind # "none" =>
        /\ pc = "Failed" /\ exit_code = 1
        /\ Len(stages) = StageIndex(error.stage)
        /\ error.stage # "Finalized" =>
             /\ results_df = << >> /\ exported = 0
             /\ StageIndex(error.stage) < 1 => weather_df = << >>
             /\ StageIndex(error.stage) < 2 => poa_df = << >>
             /\ StageIndex(error.stage) < 3 => cell_temp = << >>
             /\ StageIndex(error.stage) < 4 => dc_power = << >>
             /\ StageIndex(error.stage) < 5 => dc_power_after_loss = << >>
             /\ StageIndex(error.stage) < 6 => ac_power = << >>

C8_Witness ==
    /\ pc = "Failed" /\ error.stage = "LossesApplied"
    /\ dc_power_after_loss # << >> /\ ac_power = << >>
    /\ results_df = << >>

\* wrong cadence, non-monotonic or duplicate timestamps, a length other
\* than the expected number of hours, or negative irradiance
BadWeather(df) ==
    \/ Len(df) # ExpectedHours
    \/ \E i \in 1..(Len(df) - 1) : df[i + 1].time # df[i].time + 1
    \/ \E i \in DOMAIN df : df[i].ghi < 0 \/ df[i].dni < 0 \/ df[i].dhi < 0

\* C9: a weather sequence with a wrong cadence, length or sign makes the
\* run fail with a DataError, and no POA, power or energy comes from it.
C9_BadWeatherRejected ==
    (weather_df # << >> /\ BadWeather(weather_df)) =>
        /\ pc = "Failed" /\ error.kind = "DataError"
        /\ poa_df = << >> /\ dc_power = << >> /\ ac_power = << >>
        /\ results_df = << >>

\* tilt outside [0,90], azimuth outside [0,360), albedo outside [0,1] or a
\* loss fraction outside [0,1)
InvalidConfig(c) ==
    \/ c.system.tilt < 0 \/ c.system.tilt > 90
    \/ c.system.azimuth < 0 \/ c.system.azimuth >= 360
    \/ RLt(c.system.albedo, R(0)) \/ RLt(R(1), c.system.albedo)
    \/ ~FractionsInRange(c.loss_params)

\* C10: constructing the simulator with an out-of-range parameter fails
\* with a ConfigurationError before any step of the simulation.
C10_InvalidConfigRejected ==
    (InvalidConfig(config) /\ pc # "Start") =>
        /\ pc = "Failed" /\ error.kind = "ConfigurationError"
        /\ stages = << >> /\ weather_df = << >>

\* C11: apply_individual_loss with a name that is not a key of the loss
\* profile fails with a ConfigurationError and returns nothing; with a key
\* of the profile it returns power * (1 - loss fraction of that category).
C11_UnknownLossIsConfigurationError ==
    (probe_out # << >> /\ probe_out[1].fn = "apply_individual_loss") =>
        LET out == probe_out[1]
            L == probe_in.loss_params
        IN  IF out.loss_name \in LossKeys(L)
            THEN out.returned =
                     <<RMul(probe_in.power,
                            RSub(R(1), LossValue(L, out.loss_name)))>>
            ELSE out.raised = "ConfigurationError" /\ out.returned = << >>

\* GHI, DNI and DHI are zero in every row
ZeroIrradiance(df) ==
    \A i \in DOMAIN df : df[i].ghi = 0 /\ df[i].dni = 0 /\ df[i].dhi = 0

\* C12: when GHI, DNI and DHI are zero in every hour of the weather frame,
\* every energy_kwh of the result of run_simulation is zero, whatever the
\* ambient temperature, the wind speed and the configuration.
C12_ZeroIrradianceZeroEnergy ==
    (results_df # << >> /\ ZeroIrradiance(weather_df)) =>
        \A i \in DOMAIN results_df : results_df[i].energy_kwh = R(0)

C12_Witness ==
    /\ pc = "Done" /\ results_df # << >>
    /\ ZeroIrradiance(weather_df)
    /\ validation[1].is_complete
    /\ \E i, j \in DOMAIN weather_df :
           /\ poa_df[i].solar_zenith < 90 /\ poa_df[j].solar_zenith > 90
           /\ weather_df[i].temp_air > config.module.T_ref
           /\ weather_df[j].temp_air < config.module.T_ref
    /\ \A i \in DOMAIN results_df : results_df[i].energy_kwh = R(0)

\* the rows a provider can return for the hour of the given row, that row
\* excepted
OtherSamples(row) == {r \in HourlyRows : r.time = row.time /\ r # row}

\* the run is over: the result is returned or the run has failed in a step
RunEnded ==
    \/ pc = "Finalized"
    \/ pc = "Failed" /\ error.stage # "Finalized"

\* C13: each hour's output depends on that hour's inputs only: a run on a
\* weather frame with the same timestamps that differs in the sample of
\* hour j alone gives the same cell temperature, DC power, derated DC
\* power, AC power and energy_kwh at every hour i # j.
C13_HourlyIndependence ==
    RunEnded =>
    \A j \in DOMAIN weather_df :
        \A row \in OtherSamples(weather_df[j]) :
            LET other == run_simulation(config,
                                        [weather_df EXCEPT ![j] = row])
            IN  \A i \in DOMAIN weather_df \ {j} :
                    /\ cell_temp # << >> =>
                           cell_temp[i] = other.cell_temp[i]
                    /\ dc_power # << >> =>
                           dc_power[i] = other.dc_power[i]
                    /\ dc_power_after_loss # << >> =>
                           dc_power_after_loss[i] =
                               other.dc_power_after_loss[i]
                    /\ ac_power # << >> =>
                           ac_power[i] = other.ac_power[i]
                    /\ results_df # << >> =>
                           results_df[i] = other.results_df[i]

C13_Witness ==
    /\ pc = "Finalized" /\ Len(weather_df) >= 2
    /\ \E j \in DOMAIN weather_df :
         \E row \in OtherSamples(weather_df[j]) :
            LET other == run_simulation(config,
                                        [weather_df EXCEPT ![j] = row])
            IN  /\ other.cell_temp[j] # cell_temp[j]
                /\ other.results_df[j] # results_df[j]
                /\ \E i \in DOMAIN weather_df \ {j} :
                       /\ RLt(R(0), results_df[i].energy_kwh)
                       /\ results_df[i] = other.results_df[i]

\* C14 as stated: the cell temperature is never below the ambient
\* temperature and lies in [-40, 85], for every POA irradiance, ambient
\* temperature and wind speed.
C14_FlooredAtAmbientAndInRange ==
    (probe_out # << >> /\ probe_in.fn = "TemperatureModel") =>
        /\ RLe(R(probe_in.temp_air), probe_out[1].value)
        /\ RLe(R(-40), probe_out[1].value)
        /\ RLe(probe_out[1].value, R(85))

\* C14 amended: the cell temperature lies in [-40, 85] and is never below
\* the ambient temperature limited to 85, hence never below the ambient
\* temperature itself whenever that is at most 85.
C14_InRangeAndFlooredUpTo85 ==
    (probe_out # << >> /\ probe_in.fn = "TemperatureModel") =>
        /\ RLe(R(-40), probe_out[1].value)
        /\ RLe(probe_out[1].value, R(85))
        /\ RLe(RMin(R(probe_in.temp_air), R(85)), probe_out[1].value)
        /\ probe_in.temp_air <= 85 =>
               RLe(R(probe_in.temp_air), probe_out[1].value)

C14_Witness ==
    /\ probe_out # << >> /\ probe_in.fn = "TemperatureModel"
    /\ probe_in.poa_global = 1000
    /\ probe_in.temp_air = 90
    /\ probe_out[1].value = R(85)

\* the sum of the energy_loss_kwh of the entries
RECURSIVE EnergyLossSum(_)
EnergyLossSum(items) ==
    IF Len(items) = 0 THEN R(0)
    ELSE RAdd(EnergyLossSum(SubSeq(items, 1, Len(items) - 1)),
              items[Len(items)].energy_loss_kwh)

\* C15: for a loss profile with fractions in [0,1), get_loss_breakdown
\* reports for each category with a positive loss the energy lost from the
\* power already reduced by the categories before it; the per-category
\* energies sum to the 'total' energy, which is
\* sum(dc_power) * (1 - product of (1 - L[i])) with the product taken in
\* the profile's own order, whatever the order the categories are applied
\* in.
C15_LossBreakdown ==
    (probe_out # << >> /\ probe_out[1].fn = "get_loss_breakdown"
       /\ FractionsInRange(probe_in.loss_params)) =>
        LET L == probe_in.loss_params
            series == probe_out[1].dc_power_series
            out == probe_out[1].value
            applied == NonZeroCategories(Reordered(L, probe_in.order))
        IN  /\ Len(out.items) = Len(applied)
            /\ \A k \in DOMAIN out.items :
                   /\ out.items[k].name = applied[k][1]
                   /\ out.items[k].energy_loss_kwh =
                          RMul(RMul(SeriesSum(series),
                                    RetainedProduct(
                                        SubSeq(applied, 1, k - 1))),
                               applied[k][2])
            /\ EnergyLossSum(out.items) = out.total.energy_loss_kwh
            /\ out.total.energy_loss_kwh =
                   RMul(SeriesSum(series),
                        RSub(R(1), RetainedProduct(L)))

C15_Witness ==
    /\ probe_out # << >> /\ probe_out[1].fn = "get_loss_breakdown"
    /\ FractionsInRange(probe_in.loss_params)
    /\ Len(probe_out[1].dc_power_series) >= 2
    /\ Len(probe_out[1].value.items) >= 2
    /\ Len(probe_out[1].value.items) < Len(probe_in.loss_params)
    /\ RLt(R(0), probe_out[1].value.total.energy_loss_kwh)
    /\ \E order \in Orders(Len(probe_in.loss_params)) :
           LET other == get_loss_breakdown(
                            probe_out[1].dc_power_series,
                            Reordered(probe_in.loss_params, order))
           IN  /\ other.total = probe_out[1].value.total
               /\ \E k \in DOMAIN other.items :
                      /\ other.items[k].name = probe_out[1].value.items[1].name
                      /\ other.items[k].energy_loss_kwh #
                             probe_out[1].value.items[1].energy_loss_kwh

\* a step leaves what it was given as it was: the configuration
\* dictionaries, the provider's response, the arguments of a direct call,
\* and every frame or series an earlier step produced
InputsKept ==
    /\ config' = config
    /\ remote' = remote
    /\ probe_in' = probe_in
    /\ weather_df # << >> => weather_df' = weather_df
    /\ poa_df # << >> => poa_df' = poa_df
    /\ cell_temp # << >> => cell_temp' = cell_temp
    /\ dc_power # << >> => dc_power' = dc_power
    /\ dc_power_after_loss # << >> =>
           dc_power_after_loss' = dc_power_after_loss
    /\ ac_power # << >> => ac_power' = ac_power

\* the returned result is what a run of the same simulator on the same
\* weather computes from the inputs as they are after the run
SecondRunAgrees ==
    results_df # << >> =>
        /\ weather_df = parse_tmy_data(remote.tmy_hourly)
        /\ results_df = run_simulation(config, weather_df).results_df

C17_ExportOnceAndExitCode ==
    /\ exported \in {0, 1}
    /\ exported = 1 =>
           /\ pc \in {"Done", "Failed"}
           /\ stages = StageOrder
           /\ results_df # << >> /\ Len(results_df) = Len(weather_df)
    /\ error.kind # "none" => pc = "Failed" /\ exit_code = 1
    /\ pc = "Failed" => error.kind # "none" /\ exit_code = 1
    /\ (pc = "Failed" /\ error.kind # "OSError") => exported = 0
    /\ exit_code \in {-1, 0, 1}
    /\ exit_code = -1 <=> pc \notin {"Done", "Failed"}
    /\ exit_code = 0 =>
           /\ pc = "Done" /\ error = NoError
           /\ exported = 1 /\ stages = StageOrder

C17_Witness ==
    /\ pc = "Failed" /\ exit_code = 1
    /\ error = [stage |-> "Finalized", kind |-> "OSError"]
    /\ exported = 1
    /\ results_df # << >>

\* other values of the inverter's pdc_min and pdc_max (kW)
DCThresholds == {0, 200, 2000}

\* C18: the AC power _calculate_ac_power returns does not depend on the
\* inverter's pdc_min and pdc_max: an inverter that differs in these two
\* keys only gives the same AC power for the same DC input, so a DC power
\* below pdc_min is not forced to zero.
C18_ACIgnoresDCThresholds ==
    pc = "ACComputed" =>
        \A i \in DOMAIN ac_power :
            \A lo, hi \in DCThresholds :
                ac_power[i] =
                    calculate_ac_power(
                        dc_power_after_loss[i],
                        [config.inverter EXCEPT !.pdc_min = lo,
                                                !.pdc_max = hi])

C18_Witness ==
    /\ pc = "ACComputed"
    /\ \E i \in DOMAIN ac_power :
           /\ RLt(R(0), dc_power_after_loss[i])
           /\ RLt(dc_power_after_loss[i], R(config.inverter.pdc_min))
           /\ RLt(R(0), ac_power[i])

====
